---- MODULE Spec2Model ----
(***************************************************************************)
(* Model of src/agent.py: class Agent, a contextual-bandit agent with an   *)
(* experience buffer (deque), an epsilon-greedy policy (act), mini-batch   *)
(* replay training (replay, triggered from remember) and pickling          *)
(* (__getstate__ / __setstate__) with the model weights kept in a file.    *)
(*                                                                         *)
(* Conventions.                                                            *)
(*  - The agent object is its __dict__: a function from attribute names to *)
(*    values.  An attribute that was never set is not in its DOMAIN.       *)
(*  - Floats (epsilon, epsilon_min, epsilon_decay, the uniform draw) are   *)
(*    fixed-point numbers in units of 1/One, products rounded to nearest.  *)
(*  - The keras model is its prediction table: weights[s][a] is the value  *)
(*    predict(s) gives for action a; fit(s, target) makes target the       *)
(*    prediction for s.  A freshly built model has arbitrary weights.      *)
(*  - Every action is one call of a public method by the driver; `call`    *)
(*    records what the last call did and how it ended.                     *)
(***************************************************************************)
EXTENDS Integers, Sequences, FiniteSets, TLC

VARIABLES
    agent,      \* the live Agent object: its __dict__
    files,      \* the weight files: path -> <<>> (absent) or <<weights>>
    pickled,    \* the last state returned by __getstate__: <<>> or <<state>>
    captured,   \* history: the agent's __dict__ when that state was returned
    inserted,   \* history: the observations this buffer has been given, in order
    window,     \* history: replay invocations of the last ReplayPeriod remember calls
    call        \* the last call: operation, arguments, outcome

vars == <<agent, files, pickled, captured, inserted, window, call>>

----------------------------------------------------------------------------
(* Bounds of the model *)

\* capacity of the experience buffer, deque(maxlen=2000) in the source,
\* scaled down so that eviction happens within the bounds
MaxLen == 3
\* the life of the agent: remember calls, and decays of epsilon after which
\* the driver calls replay and remember no more
MaxStep == 2
MaxDecays == 2

(* Program constants *)

\* 1.0 in fixed point: the unit of epsilon and of the uniform draw
One == 10000
epsilon_min == 10
epsilon_decay == 1500
learning_rate == 10
ReplayPeriod == 20

\* the state vectors, the predicted values and the runtimes of the model
States == {1, 2}
Values == {0, 1, 2}
Actions(n) == 0 .. n - 1
Weights(n) == [States -> [Actions(n) -> Values]]

Min(a, b) == IF a < b THEN a ELSE b

----------------------------------------------------------------------------
(* Construction *)

save_weights_path(name) == <<"./save/agents/agent_weights_", name, ".h5">>

\* Agent.__init__; w is the random initial weights of _build_model
Construct(state_size, action_size, name, batch_size, w) ==
    [state_size        |-> state_size,
     action_size       |-> action_size,
     batch_size        |-> batch_size,
     name              |-> name,
     save_weights_path |-> save_weights_path(name),
     memory            |-> <<>>,
     epsilon           |-> One,
     epsilon_min       |-> epsilon_min,
     epsilon_decay     |-> epsilon_decay,
     learning_rate     |-> learning_rate,
     step              |-> 0,
     model             |-> w,
     writer            |-> "open"]

NoCall ==
    [op |-> "init", raised |-> "none", ret |-> <<>>, branch |-> "none",
     replays |-> 0, batch |-> <<>>, targets |-> <<>>, failed |-> 0,
     logged |-> <<>>, built |-> <<>>, stat |-> <<>>, draw |-> <<>>,
     args |-> <<>>, eps0 |-> <<>>, mem0 |-> <<>>]

----------------------------------------------------------------------------
(* The experience buffer *)

\* a full deque that drops its newest item instead of its oldest
Mut_DequeAppend(q, x) ==
    IF Len(q) >= MaxLen THEN Append(SubSeq(q, 1, Len(q) - 1), x) ELSE Append(q, x)

\* deque.append on a deque with maxlen: a full deque drops its leftmost item
DequeAppend(q, x) ==
    IF Len(q) >= MaxLen THEN Append(Tail(q), x) ELSE Append(q, x)

----------------------------------------------------------------------------
(* replay *)

\* batch_size = self.batch_size if self.batch_size < len(self.memory) else len(self.memory)
BatchSize(d) ==
    IF d.batch_size < Len(d.memory) THEN d.batch_size ELSE Len(d.memory)

\* a sample drawn with replacement
Mut_Samples(n, k) == [1 .. k -> 1 .. n]

\* random.sample(population of n, k): k distinct positions, in any order
Samples(n, k) ==
    {s \in [1 .. k -> 1 .. n] : \A i, j \in 1 .. k : i # j => s[i] # s[j]}

predict(w, state) == w[state]

\* a target that holds the runtime in every slot
Mut_Target(w, obs) == [a \in DOMAIN predict(w, obs[1]) |-> obs[3]]

\* target = predict(state); target[0][action] = runtime
Target(w, obs) == [predict(w, obs[1]) EXCEPT ![obs[2]] = obs[3]]

fit(w, state, target) == [w EXCEPT ![state] = target]

\* the loop over the mini batch, items i .. Len(sample); the training step of
\* item failAt raises (failAt = 0: none does)
RECURSIVE Train(_, _, _, _, _, _)
Train(w, memory, sample, i, failAt, targets) ==
    IF i > Len(sample) THEN [model |-> w, targets |-> targets, raised |-> "none"]
    ELSE IF i = failAt THEN [model |-> w, targets |-> targets, raised |-> "TrainingError"]
    ELSE LET obs == memory[sample[i]]
             t   == Target(w, obs)
         IN Train(fit(w, obs[1], t), memory, sample, i + 1, failAt,
                  Append(targets, [state |-> obs[1], action |-> obs[2],
                                   runtime |-> obs[3],
                                   pred |-> predict(w, obs[1]), target |-> t]))

\* a decay with its guard inverted
Mut_DecayInverted(d) ==
    IF d.epsilon < d.epsilon_min
    THEN (d.epsilon * (One - d.epsilon_decay) + One \div 2) \div One
    ELSE d.epsilon

\* the decay without its guard
Mut_Decay(d) == (d.epsilon * (One - d.epsilon_decay) + One \div 2) \div One

\* if self.epsilon > self.epsilon_min: self.epsilon *= (1 - self.epsilon_decay)
Decay(d) ==
    IF d.epsilon > d.epsilon_min
    THEN (d.epsilon * (One - d.epsilon_decay) + One \div 2) \div One
    ELSE d.epsilon

\* a replay that catches what its training steps raise
Mut_ReplayRun(d, sample, failAt) ==
    LET t == Train(d.model, d.memory, sample, 1, failAt, <<>>)
    IN [self |-> [d EXCEPT !.model = t.model, !.epsilon = Decay(d)],
        raised |-> "none", targets |-> t.targets]

\* a replay that decays epsilon also when a training step raises
Mut_ReplayRunDecays(d, sample, failAt) ==
    LET t == Train(d.model, d.memory, sample, 1, failAt, <<>>)
    IN [self |-> [d EXCEPT !.model = t.model, !.epsilon = Decay(d)],
        raised |-> t.raised, targets |-> t.targets]

\* Agent.replay on the object d: the object afterwards and the outcome
ReplayRun(d, sample, failAt) ==
    LET t == Train(d.model, d.memory, sample, 1, failAt, <<>>)
    IN IF t.raised # "none"
       THEN [self |-> [d EXCEPT !.model = t.model],
             raised |-> t.raised, targets |-> t.targets]
       ELSE [self |-> [d EXCEPT !.model = t.model, !.epsilon = Decay(d)],
             raised |-> "none", targets |-> t.targets]

\* the driver calls replay; the sample is random.sample's, and any training
\* step may raise
Replay ==
    \E sample \in Samples(Len(agent.memory), BatchSize(agent)) :
      \E failAt \in 0 .. Len(sample) :
        LET r == ReplayRun(agent, sample, failAt)
        IN /\ agent' = r.self
           /\ call' = [NoCall EXCEPT !.op = "replay", !.raised = r.raised,
                          !.replays = 1, !.batch = sample, !.targets = r.targets,
                          !.failed = failAt, !.eps0 = <<agent.epsilon>>,
                          !.mem0 = <<agent.memory>>]
           /\ UNCHANGED <<files, pickled, captured, inserted, window>>

----------------------------------------------------------------------------
(* remember *)

\* the cadence a reader expects: replay on every 20th step only
Mut_Triggers(step) == step % ReplayPeriod = 0

\* if self.step % 20: self.replay()
Triggers(step) == step % ReplayPeriod # 0

LastN(s, n) == IF Len(s) <= n THEN s ELSE SubSeq(s, Len(s) - n + 1, Len(s))

\* a remember that counts only the first observation of the buffer
Mut_Stored(d, obs) ==
    [d EXCEPT !.memory = DequeAppend(@, obs),
              !.step = IF Len(d.memory) >= 1 THEN 1 ELSE @ + 1]

\* self.memory.append((state, action, runtime)); self.step += 1
Stored(d, obs) == [d EXCEPT !.memory = DequeAppend(@, obs), !.step = @ + 1]

\* the driver calls remember(state, action, runtime)
Remember(state, action, runtime) ==
    LET obs == <<state, action, runtime>>
        d1  == Stored(agent, obs)
    IN /\ IF Triggers(d1.step)
          THEN \E sample \in Samples(Len(d1.memory), BatchSize(d1)) :
                 \E failAt \in 0 .. Len(sample) :
                   LET r == ReplayRun(d1, sample, failAt)
                   IN /\ agent' = r.self
                      /\ call' = [NoCall EXCEPT !.op = "remember",
                                     !.raised = r.raised, !.replays = 1,
                                     !.batch = sample, !.targets = r.targets,
                                     !.failed = failAt,
                                     !.eps0 = <<d1.epsilon>>,
                                     !.mem0 = <<d1.memory>>,
                                     !.args = <<state, action, runtime>>]
          ELSE /\ agent' = d1
               /\ call' = [NoCall EXCEPT !.op = "remember",
                              !.args = <<state, action, runtime>>]
       /\ inserted' = Append(inserted, obs)
       /\ window' = LastN(Append(window, call'.replays), ReplayPeriod)
       /\ UNCHANGED <<files, pickled, captured>>

----------------------------------------------------------------------------
(* act *)

\* an argsort that sorts descending
Mut_ArgSorts(values) ==
    LET n == Cardinality(DOMAIN values)
    IN {p \in [1 .. n -> DOMAIN values] :
          /\ \A i, j \in 1 .. n : i # j => p[i] # p[j]
          /\ \A i \in 1 .. n - 1 : values[p[i]] >= values[p[i + 1]]}

\* np.argsort(values): the positions in an order that sorts the values
\* ascending; the order among equal values is the sort's choice
ArgSorts(values) ==
    LET n == Cardinality(DOMAIN values)
    IN {p \in [1 .. n -> DOMAIN values] :
          /\ \A i, j \in 1 .. n : i # j => p[i] # p[j]
          /\ \A i \in 1 .. n - 1 : values[p[i]] <= values[p[i + 1]]}

\* seq[:k] for k >= 0
Slice(seq, k) == SubSeq(seq, 1, Min(k, Len(seq)))

\* if np.random.rand() <= self.epsilon
Explores(draw, epsilon) == draw <= epsilon

\* the values of np.random.rand(), in [0, 1), that act can tell apart: the
\* ends of the interval and the values around epsilon
Draws(epsilon) == {0, epsilon, epsilon + 1, One - 1} \cap (0 .. One - 1)

\* an act that decays epsilon whenever it explores
Mut_ActDecays(state, num_return) ==
    \E draw \in Draws(agent.epsilon) :
      IF Explores(draw, agent.epsilon)
      THEN \E pick \in Actions(agent.action_size) :
             /\ call' = [NoCall EXCEPT !.op = "act", !.branch = "random",
                            !.ret = <<pick>>, !.draw = <<draw>>,
                            !.args = <<state, num_return>>]
             /\ agent' = [agent EXCEPT !.epsilon =
                             (@ * (One - agent.epsilon_decay) + One \div 2) \div One]
             /\ UNCHANGED <<files, pickled, captured, inserted, window>>
      ELSE \E order \in ArgSorts(predict(agent.model, state)) :
             /\ call' = [NoCall EXCEPT !.op = "act", !.branch = "greedy",
                            !.ret = Slice(order, num_return), !.draw = <<draw>>,
                            !.args = <<state, num_return>>]
             /\ UNCHANGED <<agent, files, pickled, captured, inserted, window>>

\* an act whose random branch returns num_return actions
Mut_ActManyRandom(state, num_return) ==
    /\ \E draw \in Draws(agent.epsilon) :
         IF Explores(draw, agent.epsilon)
         THEN \E pick \in Actions(agent.action_size) :
                call' = [NoCall EXCEPT !.op = "act", !.branch = "random",
                            !.ret = [i \in 1 .. num_return |-> pick],
                            !.draw = <<draw>>, !.args = <<state, num_return>>]
         ELSE \E order \in ArgSorts(predict(agent.model, state)) :
                call' = [NoCall EXCEPT !.op = "act", !.branch = "greedy",
                            !.ret = Slice(order, num_return), !.draw = <<draw>>,
                            !.args = <<state, num_return>>]
    /\ UNCHANGED <<agent, files, pickled, captured, inserted, window>>

\* the driver calls act(state, num_return); draw is np.random.rand(), pick is
\* random.randrange(action_size), order is the result of np.argsort
Act(state, num_return) ==
    /\ \E draw \in Draws(agent.epsilon) :
         IF Explores(draw, agent.epsilon)
         THEN \E pick \in Actions(agent.action_size) :
                call' = [NoCall EXCEPT !.op = "act", !.branch = "random",
                            !.ret = <<pick>>, !.draw = <<draw>>,
                            !.args = <<state, num_return>>]
         ELSE \E order \in ArgSorts(predict(agent.model, state)) :
                call' = [NoCall EXCEPT !.op = "act", !.branch = "greedy",
                            !.ret = Slice(order, num_return), !.draw = <<draw>>,
                            !.args = <<state, num_return>>]
    /\ UNCHANGED <<agent, files, pickled, captured, inserted, window>>

----------------------------------------------------------------------------
(* log_stats *)

\* the driver calls log_stats(tag, value): self.writer.add_summary(stat, self.step)
LogStats(tag, value) ==
    /\ IF "writer" \in DOMAIN agent
       THEN call' = [NoCall EXCEPT !.op = "log_stats",
                        !.stat = <<[tag |-> <<agent.name, tag>>, value |-> value,
                                    step |-> agent.step]>>]
       ELSE call' = [NoCall EXCEPT !.op = "log_stats", !.raised = "AttributeError"]
    /\ UNCHANGED <<agent, files, pickled, captured, inserted, window>>

----------------------------------------------------------------------------
(* pickling *)

Without(d, key) == [k \in DOMAIN d \ {key} |-> d[k]]

\* a save that writes nothing
Mut_SaveWeights(fs, d) == fs

\* self.model.save_weights(self.save_weights_path)
SaveWeights(fs, d) == [fs EXCEPT ![d.save_weights_path] = <<d.model>>]

\* state = self.__dict__.copy(); del state['model']; del state['writer']
GetState(d) ==
    IF "model" \notin DOMAIN d \/ "writer" \notin DOMAIN d
    THEN [raised |-> "KeyError", state |-> <<>>]
    ELSE [raised |-> "none", state |-> <<Without(Without(d, "model"), "writer")>>]

\* a __getstate__ that deletes from self.__dict__ itself, not from a copy
Mut_Capture ==
    LET g == GetState(agent)
    IN /\ files' = SaveWeights(files, agent)
       /\ call' = [NoCall EXCEPT !.op = "capture", !.raised = g.raised]
       /\ IF g.raised = "none"
          THEN /\ pickled' = g.state
               /\ captured' = <<agent>>
               /\ agent' = g.state[1]
          ELSE UNCHANGED <<pickled, captured, agent>>
       /\ UNCHANGED <<inserted, window>>

\* the driver pickles the agent: __getstate__
Capture ==
    LET g == GetState(agent)
    IN /\ files' = SaveWeights(files, agent)
       /\ call' = [NoCall EXCEPT !.op = "capture", !.raised = g.raised]
       /\ IF g.raised = "none"
          THEN pickled' = g.state /\ captured' = <<agent>>
          ELSE UNCHANGED <<pickled, captured>>
       /\ UNCHANGED <<agent, inserted, window>>

\* a load that lets the OSError of a missing file through
Mut_LoadWeights(fs, d) ==
    IF fs[d.save_weights_path] # <<>>
    THEN [self |-> [d EXCEPT !.model = fs[d.save_weights_path][1]],
          raised |-> "none", logged |-> <<>>]
    ELSE [self |-> d, raised |-> "OSError", logged |-> <<>>]

\* self.model.load_weights(path), except OSError: events.info(...)
LoadWeights(fs, d) ==
    IF fs[d.save_weights_path] # <<>>
    THEN [self |-> [d EXCEPT !.model = fs[d.save_weights_path][1]],
          raised |-> "none", logged |-> <<>>]
    ELSE [self |-> d, raised |-> "none",
          logged |-> <<"Model weights not found, training from base-model.">>]

\* __setstate__ on a new object: self.__dict__.update(state);
\* self.model = self._build_model(); self._load_weights()
SetState(state, w, fs) ==
    LET d1 == ("model" :> w) @@ state
    IN LoadWeights(fs, d1)

\* the driver unpickles the last pickled state and goes on with that agent
Restore(w) ==
    /\ pickled # <<>>
    /\ LET r == SetState(pickled[1], w, files)
       IN /\ call' = [NoCall EXCEPT !.op = "restore", !.raised = r.raised,
                         !.logged = r.logged, !.built = <<w>>]
          /\ IF r.raised = "none"
             THEN /\ agent' = r.self
                  /\ inserted' = r.self.memory
                  /\ window' = <<>>
             ELSE UNCHANGED <<agent, inserted, window>>
    /\ UNCHANGED <<files, pickled, captured>>

\* the environment: a weight file is removed (or the state is unpickled where
\* the file never was)
DeleteWeights(path) ==
    /\ files[path] # <<>>
    /\ files' = [files EXCEPT ![path] = <<>>]
    /\ call' = [NoCall EXCEPT !.op = "delete_weights"]
    /\ UNCHANGED <<agent, pickled, captured, inserted, window>>

----------------------------------------------------------------------------
(* Specifications *)

Names == {"a"}
Paths == {save_weights_path(n) : n \in Names}

\* the state after Agent(state_size, action_size, name=name, batch_size=batch_size)
InitWith(state_size, action_size, name, batch_size, w) ==
    /\ agent = Construct(state_size, action_size, name, batch_size, w)
    /\ files = [p \in Paths |-> <<>>]
    /\ pickled = <<>>
    /\ captured = <<>>
    /\ inserted = <<>>
    /\ window = <<>>
    /\ call = NoCall

\* the weights with the same prediction v for every state and action
Flat(n, v) == [s \in States |-> [a \in Actions(n) |-> v]]

\* epsilon after n decays from 1.0
RECURSIVE EpsAfter(_)
EpsAfter(n) == IF n = 0 THEN One ELSE Decay([epsilon |-> EpsAfter(n - 1),
                   epsilon_min |-> epsilon_min, epsilon_decay |-> epsilon_decay])

(* Spec: the whole life of one agent, a few calls long: training, acting,
   telemetry, pickling and unpickling, with the weight file present or not *)

Init == InitWith(4, 2, "a", 1, Flat(2, 0))

Next ==
    \/ /\ agent.step < MaxStep
       /\ agent.epsilon > EpsAfter(MaxDecays)
       /\ \E a \in Actions(agent.action_size) : Remember(1, a, 1)
    \/ /\ agent.epsilon > EpsAfter(MaxDecays)
       /\ Replay
    \/ Act(1, 1)
    \/ LogStats("runtime", 1)
    \/ Capture
    \/ Restore(Flat(2, 2))
    \/ \E p \in Paths : DeleteWeights(p)

Spec == Init /\ [][Next]_vars

(* SpecBuffer: the experience buffer filled past its capacity with
   observations that differ, each remember with its replay *)

InitBuffer == InitWith(4, 2, "a", 2, Flat(2, 0))

NextBuffer ==
    /\ agent.step < MaxLen + 2
    /\ \E obs \in {<<1, 0, 1>>, <<2, 1, 2>>} : Remember(obs[1], obs[2], obs[3])

SpecBuffer == InitBuffer /\ [][NextBuffer]_vars

(* SpecLoop: the training loop run through two replay periods and until
   epsilon has decayed to epsilon_min *)

InitLoop == InitWith(4, 2, "a", 1, Flat(2, 0))

NextLoop ==
    \/ /\ agent.step < 2 * ReplayPeriod + 1
       /\ Remember(1, 0, 1)
    \/ Replay

SpecLoop == InitLoop /\ [][NextLoop]_vars

(* SpecAct: act as a function of epsilon, the weights, the state and
   num_return *)

\* the weights that predict v for state 1 and v reversed for state 2
Mirrored(n, v) ==
    [s \in States |-> [a \in Actions(n) |-> IF s = 1 THEN v[a] ELSE v[n - 1 - a]]]

\* the inputs of act: epsilon, action_size, num_return
Epsilons == {0, epsilon_min, EpsAfter(1), One}
ActionSizes == {1, 2, 3}
NumReturns == 0 .. 4

InitAct ==
    \E n \in ActionSizes : \E v \in [Actions(n) -> Values] : \E e \in Epsilons :
       /\ agent = [Construct(4, n, "a", 2, Mirrored(n, v)) EXCEPT !.epsilon = e]
       /\ files = [p \in Paths |-> <<>>]
       /\ pickled = <<>>
       /\ captured = <<>>
       /\ inserted = <<>>
       /\ window = <<>>
       /\ call = NoCall

NextAct == \E s \in States, k \in NumReturns : Act(s, k)

SpecAct == InitAct /\ [][NextAct]_vars

(* SpecReplay: replay, called by remember and by the driver, on buffers of
   observations that differ, with a batch smaller than the buffer or not *)

NextReplay ==
    \/ /\ agent.step < MaxLen
       /\ \E obs \in {<<1, 0, 1>>, <<2, 1, 2>>} : Remember(obs[1], obs[2], obs[3])
    \/ /\ agent.epsilon > EpsAfter(MaxDecays)
       /\ Replay

SpecReplay == InitBuffer /\ [][NextReplay]_vars

(* SpecLive: the driver keeps calling remember and no training step raises,
   for three replay periods *)

RememberReturns == Remember(1, 0, 1) /\ call'.raised = "none"

NextLive ==
    /\ agent.step < 3 * ReplayPeriod
    /\ RememberReturns

SpecLive == InitLoop /\ [][NextLive]_vars /\ WF_vars(NextLive)

----------------------------------------------------------------------------
(* Properties *)

RECURSIVE SumSeq(_)
SumSeq(s) == IF s = <<>> THEN 0 ELSE Head(s) + SumSeq(Tail(s))

IsReplayCall == call.replays = 1

\* C1 (SpecBuffer): the buffer never holds more than its capacity, and it holds
\* exactly the most recent observations given to remember, in the order they
\* were given (the oldest are evicted first).
C1_BufferHoldsMostRecent ==
    /\ Len(agent.memory) <= MaxLen
    /\ agent.memory = LastN(inserted, MaxLen)

\* more observations than the capacity were remembered, not all the same
C1_Witness ==
    /\ call.op = "remember"
    /\ Len(inserted) = MaxLen + 2
    /\ inserted[1] # inserted[2]
    /\ inserted[Len(inserted)] # inserted[1]

C3_ReplayCadence ==
    /\ call.op = "remember" =>
         call.replays = (IF agent.step % ReplayPeriod # 0 THEN 1 ELSE 0)
    /\ Len(window) = ReplayPeriod => SumSeq(window) = ReplayPeriod - 1

\* the remember call of step 40, which invoked no replay, 20 calls behind it
C3_Witness ==
    /\ call.op = "remember"
    /\ call.replays = 0
    /\ agent.step = 2 * ReplayPeriod
    /\ Len(window) = ReplayPeriod

\* C4 (SpecAct): with epsilon = 0 act never takes the random branch, whatever
\* the draw in [0, 1), and with epsilon = 1 it always takes it.
C4_EpsilonExtremes ==
    call.op = "act" =>
        /\ agent.epsilon = 0 => call.branch = "greedy"
        /\ agent.epsilon = One => call.branch = "random"

Distinct(seq) == \A i, j \in 1 .. Len(seq) : i # j => seq[i] # seq[j]

Ascending(values, seq) ==
    \A i \in 1 .. Len(seq) - 1 : values[seq[i]] <= values[seq[i + 1]]

FirstIsMinimum(values, seq) ==
    Len(seq) >= 1 => \A a \in DOMAIN values : values[seq[1]] <= values[a]

Predicted == predict(agent.model, call.args[1])

\* C5 as claimed (SpecAct): greedy act(state, num_return = k) returns exactly k
\* distinct indices in ascending order of predicted value, the first of
\* minimum predicted value, for every k.
C5_GreedyExactlyK ==
    (call.op = "act" /\ call.branch = "greedy") =>
        /\ Len(call.ret) = call.args[2]
        /\ Distinct(call.ret)
        /\ Ascending(Predicted, call.ret)
        /\ FirstIsMinimum(Predicted, call.ret)

\* C5 as amended (SpecAct): greedy act(state, num_return = k), k >= 0, returns
\* exactly min(k, action_size) distinct indices in ascending order of
\* predicted value, the first (if any) of minimum predicted value.
C5_GreedyMinKActionSize ==
    (call.op = "act" /\ call.branch = "greedy") =>
        /\ Len(call.ret) = Min(call.args[2], agent.action_size)
        /\ \A i \in 1 .. Len(call.ret) : call.ret[i] \in Actions(agent.action_size)
        /\ Distinct(call.ret)
        /\ Ascending(Predicted, call.ret)
        /\ FirstIsMinimum(Predicted, call.ret)

\* a greedy call that asked for more actions than there are, the three
\* predicted values differing and the best action not the first one
C5_Witness ==
    /\ call.op = "act"
    /\ call.branch = "greedy"
    /\ agent.action_size = 3
    /\ call.args[2] > agent.action_size
    /\ Distinct(<<Predicted[0], Predicted[1], Predicted[2]>>)
    /\ call.ret[1] # 0

\* C6 (SpecLoop): a replay call that returns, entered with epsilon above
\* epsilon_min, leaves a strictly smaller epsilon that is not below
\* epsilon_min * (1 - epsilon_decay); entered with epsilon at or below
\* epsilon_min it leaves epsilon as it was.
C6_BoundedDecay ==
    (IsReplayCall /\ call.raised = "none") =>
        IF call.eps0[1] > epsilon_min
        THEN /\ agent.epsilon < call.eps0[1]
             /\ agent.epsilon * One >= epsilon_min * (One - epsilon_decay)
        ELSE agent.epsilon = call.eps0[1]

\* a replay entered with epsilon already at or below epsilon_min
C6_Witness ==
    /\ IsReplayCall
    /\ call.raised = "none"
    /\ call.eps0[1] <= epsilon_min

RoundTripFields == {"epsilon", "step", "batch_size", "name", "memory"}

\* C7 (Spec): pickling the agent succeeds in every state, and the agent
\* unpickled from that state has the epsilon, step, batch_size, name and
\* memory the pickled agent had and, the weight file being there, its weights.
C7_RoundTrip ==
    /\ call.op = "capture" => call.raised = "none"
    /\ (call.op = "restore" /\ call.raised = "none") =>
         /\ \A f \in RoundTripFields : agent[f] = captured[1][f]
         /\ files[agent.save_weights_path] # <<>> => agent.model = captured[1].model

\* C8 (Spec): unpickling with the weight file absent raises nothing, logs one
\* informational event and gives an agent with every pickled attribute set and
\* the freshly built model.
C8_RestoreWithoutWeights ==
    (call.op = "restore" /\ files[pickled[1].save_weights_path] = <<>>) =>
        /\ call.raised = "none"
        /\ call.logged = <<"Model weights not found, training from base-model.">>
        /\ \A f \in DOMAIN pickled[1] : f \in DOMAIN agent /\ agent[f] = pickled[1][f]
        /\ agent.model = call.built[1]

\* an agent unpickled with the weight file absent, after it had been trained
C8_Witness ==
    /\ call.op = "restore"
    /\ files[pickled[1].save_weights_path] = <<>>
    /\ captured[1].model # agent.model
    /\ agent.step > 0

\* C9 (Spec): replay on an empty buffer raises and leaves epsilon as it was.
C9_EmptyReplayRejected ==
    (call.op = "replay" /\ agent.memory = <<>>) =>
        /\ call.raised # "none"
        /\ agent.epsilon = call.eps0[1]

\* C10 (Spec): a training step that raises inside replay is caught nowhere:
\* the replay call, and the remember call that invoked it, raise it.
C10_TrainingFailurePropagates ==
    call.failed # 0 =>
        /\ call.op \in {"remember", "replay"}
        /\ call.raised = "TrainingError"

\* a remember call whose replay had a training step raise
C10_Witness ==
    /\ call.op = "remember"
    /\ call.failed # 0
    /\ call.raised = "TrainingError"

\* C11 (Spec): every agent, constructed or unpickled, has its model and its
\* telemetry writer, so log_stats and act never raise.
C11_ModelAndWriterPresent ==
    /\ {"model", "writer"} \subseteq DOMAIN agent
    /\ call.op \in {"log_stats", "act"} => call.raised = "none"

\* C12 (Spec): __getstate__ writes the weight file before it builds the state:
\* after any capture the file of the agent's name holds the agent's weights,
\* and a returned state is the agent's __dict__ without model and writer.
C12_CaptureSavesThenReturns ==
    call.op = "capture" =>
        /\ files[agent.save_weights_path] = <<agent.model>>
        /\ call.raised = "none" =>
             /\ DOMAIN pickled[1] = DOMAIN agent \ {"model", "writer"}
             /\ \A f \in DOMAIN pickled[1] : pickled[1][f] = agent[f]

\* a trained agent was pickled
C12_Witness ==
    /\ call.op = "capture"
    /\ call.raised = "none"
    /\ agent.step = 2
    /\ agent.model # Flat(2, 0)
    /\ agent.epsilon < One

\* C13 (Spec): act changes nothing of the agent, in either branch.
C13_ActChangesNothing ==
    [][call'.op = "act" =>
         /\ agent' = agent
         /\ files' = files
         /\ pickled' = pickled]_vars

\* a greedy act of a trained agent
C13_Witness ==
    /\ call.op = "act"
    /\ call.branch = "greedy"
    /\ agent.step > 0
    /\ agent.epsilon < One

\* C14 (SpecReplay): replay samples min(batch_size, len(memory)) positions of
\* the buffer, no position twice, trains on the observations at them, one
\* training step each, and leaves the buffer as it found it.
C14_ReplayBatch ==
    IsReplayCall =>
        LET mem == call.mem0[1]
            n   == Min(agent.batch_size, Len(mem))
        IN /\ Len(call.batch) = n
           /\ \A i \in 1 .. Len(call.batch) : call.batch[i] \in 1 .. Len(mem)
           /\ Distinct(call.batch)
           /\ agent.memory = mem
           /\ call.raised = "none" =>
                /\ Len(call.targets) = n
                /\ \A i \in 1 .. Len(call.targets) :
                     <<call.targets[i].state, call.targets[i].action,
                       call.targets[i].runtime>> = mem[call.batch[i]]

\* a replay with batch_size 2 on a buffer of 3 observations, not all the same
C14_Witness ==
    /\ IsReplayCall
    /\ call.raised = "none"
    /\ agent.batch_size = 2
    /\ Len(call.mem0[1]) = 3
    /\ Len(call.targets) = 2
    /\ call.mem0[1][1] # call.mem0[1][2]

\* C15 (SpecReplay): the target of every training step is the prediction for
\* the observation's state with the slot of its action replaced by its
\* runtime, and no other slot changed.
C15_TargetOverwritesOneSlot ==
    IsReplayCall =>
        \A i \in 1 .. Len(call.targets) :
            LET t == call.targets[i]
            IN /\ DOMAIN t.target = Actions(agent.action_size)
               /\ \A a \in Actions(agent.action_size) :
                    t.target[a] = IF a = t.action THEN t.runtime ELSE t.pred[a]

\* two training steps on different states, the second on a prediction that
\* an earlier replay has changed
C15_Witness ==
    /\ IsReplayCall
    /\ Len(call.targets) = 2
    /\ call.targets[1].state # call.targets[2].state
    /\ \E a \in Actions(agent.action_size) : call.targets[2].pred[a] # 0
    /\ call.targets[1].pred[call.targets[1].action] # call.targets[1].runtime

\* C19 (SpecReplay): a remember call whose replay raises is not rolled back:
\* its observation is in the buffer and the step counter is incremented, and
\* epsilon is as it was.
C19_FailedRememberKeepsEffects ==
    [][(call'.op = "remember" /\ call'.raised = "TrainingError") =>
         /\ agent'.step = agent.step + 1
         /\ agent'.memory = LastN(Append(agent.memory, call'.args), MaxLen)
         /\ agent'.epsilon = agent.epsilon]_vars

\* a remember call whose replay raised in its second training step
C19_Witness ==
    /\ call.op = "remember"
    /\ call.raised = "TrainingError"
    /\ call.failed = 2
    /\ Len(call.targets) = 1
    /\ agent.memory[Len(agent.memory)] = call.args

\* C16 (SpecAct): the random branch of act returns one action index, in
\* [0, action_size), whatever num_return is; the greedy branch returns
\* num_return indices when there are that many actions.
C16_RandomReturnsOne ==
    call.op = "act" =>
        /\ call.branch = "random" =>
             /\ Len(call.ret) = 1
             /\ call.ret[1] \in Actions(agent.action_size)
        /\ (call.branch = "greedy" /\ call.args[2] <= agent.action_size) =>
             Len(call.ret) = call.args[2]

\* a random act that was asked for three actions
C16_Witness ==
    /\ call.op = "act"
    /\ call.branch = "random"
    /\ call.args[2] = 3
    /\ agent.action_size = 3
    /\ call.ret = <<2>>

\* C17 (SpecLoop): epsilon of a constructed agent is within [0, 1], no call
\* but unpickling raises it, and once it is at or below epsilon_min no call
\* changes it.
C17_EpsilonMonotone ==
    /\ 0 <= agent.epsilon /\ agent.epsilon <= One
    /\ [][call'.op # "restore" =>
            /\ agent'.epsilon <= agent.epsilon
            /\ agent.epsilon <= epsilon_min => agent'.epsilon = agent.epsilon]_vars

\* a remember call whose replay found epsilon at or below epsilon_min
C17_Witness ==
    /\ call.op = "remember"
    /\ IsReplayCall
    /\ call.raised = "none"
    /\ call.eps0[1] <= epsilon_min
    /\ agent.epsilon = call.eps0[1]

\* C18 (SpecLive): when the driver keeps calling remember and no training step
\* raises, epsilon comes to be at or below epsilon_min for good, and from
\* then on it does not change.
C18_DecayStops ==
    /\ <>[](agent.epsilon <= epsilon_min)
    /\ [][agent.epsilon <= epsilon_min => agent'.epsilon = agent.epsilon]_vars

\* the driver went on calling remember after epsilon had reached epsilon_min
C18_Witness ==
    /\ agent.epsilon <= epsilon_min
    /\ agent.step = 3 * ReplayPeriod
    /\ call.op = "remember"

\* C20 (Spec): __getstate__ changes nothing of the agent; when it returns a
\* state the agent still has its model and its writer.
C20_CaptureKeepsAgent ==
    [][call'.op = "capture" =>
         /\ agent' = agent
         /\ call'.raised = "none" => {"model", "writer"} \subseteq DOMAIN agent']_vars

\* a trained agent was pickled and then remembered, acted or logged
C20_Witness ==
    /\ captured # <<>>
    /\ call.op \in {"remember", "act", "log_stats"}
    /\ call.raised = "none"
    /\ "writer" \in DOMAIN agent
    /\ captured[1].step > 0
    /\ agent.step >= captured[1].step

====
